---- MODULE Spec2Model ----
(***************************************************************************)
(* PoliDoc backend: the graph router (app/routers/graph.py) mounted by     *)
(* app/main.py.  Every route depends on get_neo4j_session, which opens a   *)
(* driver and a session for the request, runs one fixed Cypher query and   *)
(* reshapes the rows.  The model has three parts:                          *)
(*   - the graph store and the Cypher queries as operators over it;        *)
(*   - the life of one request, step by step (routing, the dependency,     *)
(*     validation, the handler, the dependency's cleanup);                 *)
(*   - the specifications: Spec (one client, every route and input),       *)
(*     SpecConc (concurrent requests), SpecQuery (the queries alone over   *)
(*     a wide family of stores).                                           *)
(***************************************************************************)
EXTENDS Integers, Sequences, FiniteSets, TLC

VARIABLES store, reqs, drivers, sessions, probe

vars == <<store, reqs, drivers, sessions, probe>>

(***************************************************************************)
(* Bounds of the model.                                                    *)
(***************************************************************************)
\* Concurrent requests in SpecConc.
NumRequests == 2
\* Paragraph nodes of a store drawn by SpecQuery and SpecCcq.
MaxParagraphs == 2
\* Maps_To relationships of a store drawn by SpecCcq.
MaxMapsTo == 4

\* LIMIT 25 of the policy-type and coverage listings.
Limit == 25

\* Python's None where a record is expected (Result.single()).
NoRecord == [ none |-> TRUE ]

\* An Optional[List[int]] field: None, or a list.
NoList == [ given |-> FALSE, items |-> << >> ]

SomeList(items) == [ given |-> TRUE, items |-> items ]

(***************************************************************************)
(* Values.  Strings that the queries order are listed in StringOrder in    *)
(* ascending code-point order, the order Cypher's ORDER BY gives strings.  *)
(***************************************************************************)
StringOrder ==
    << "A", "B", "C", "Covered Peril", "Limit of Liability",
       "Non-Covered Peril", "None", "Property Not Covered",
       "earthquake", "fire", "flood", "theft" >>

StrIndex(s) == CHOOSE i \in DOMAIN StringOrder : StringOrder[i] = s

Terms == { "fire", "flood" }

\* The Map_Type values get_ccq_list keeps.
CcqMapTypes == { "Non-Covered Peril", "Limit of Liability", "Property Not Covered" }

DefaultPolicyForm == "HO00030511"

OtherForm == "DP00010702"

Range(s) == { s[i] : i \in DOMAIN s }

(***************************************************************************)
(* Decimal rendering of an integer: Python's str(int) on the request's     *)
(* manually_selected_paragraphs and Cypher's toString() on the stored      *)
(* Paragraph_Number.  A rendering is a sequence of characters.             *)
(***************************************************************************)
Digit(d) == << "0", "1", "2", "3", "4", "5", "6", "7", "8", "9" >>[d + 1]

RECURSIVE NatToStr(_)
NatToStr(n) == IF n < 10 THEN << Digit(n) >>
               ELSE NatToStr(n \div 10) \o << Digit(n % 10) >>

PyStr(n) == IF n < 0 THEN << "-" >> \o NatToStr(-n) ELSE NatToStr(n)

CypherToString(n) == IF n < 0 THEN << "-" >> \o NatToStr(-n) ELSE NatToStr(n)

(***************************************************************************)
(* Cypher result sets.  proj maps every match of a query to the row its    *)
(* RETURN builds.  The rows form a bag (a function from row to its number  *)
(* of occurrences): one row per match, or one per distinct row under       *)
(* RETURN DISTINCT.  ORDER BY yields some ordering of the bag that         *)
(* respects the sort key (a tuple of integers per row, compared            *)
(* lexicographically); rows with equal keys come in any order.             *)
(***************************************************************************)
ReturnAll(proj) ==
    [ row \in Range(proj) |-> Cardinality({ m \in DOMAIN proj : proj[m] = row }) ]

ReturnDistinct(proj) == [ row \in Range(proj) |-> 1 ]

RECURSIVE BagSize(_)
BagSize(bag) ==
    IF DOMAIN bag = {} THEN 0
    ELSE LET row == CHOOSE x \in DOMAIN bag : TRUE
         IN  bag[row] + BagSize([ x \in DOMAIN bag \ {row} |-> bag[x] ])

SeqBag(s) ==
    [ row \in Range(s) |-> Cardinality({ i \in DOMAIN s : s[i] = row }) ]

KeyLeq(a, b) ==
    \/ a = b
    \/ \E i \in DOMAIN a :
          /\ a[i] < b[i]
          /\ \A j \in 1..(i - 1) : a[j] = b[j]

OrderBy(bag, key) ==
    { s \in [ 1..BagSize(bag) -> DOMAIN bag ] :
        /\ SeqBag(s) = bag
        /\ \A i, j \in DOMAIN s : i < j => KeyLeq(key[s[i]], key[s[j]]) }

Unordered(bag) == OrderBy(bag, [ row \in DOMAIN bag |-> << >> ])

Take(s, n) == IF Len(s) <= n THEN s ELSE SubSeq(s, 1, n)

(***************************************************************************)
(* The graph store: Form and Coverage nodes (sets of attribute records),   *)
(* Paragraph nodes (a function from node id to attributes, since two       *)
(* nodes may carry the same attributes), Maps_To relationships from a      *)
(* paragraph to a Map_Term (with Map_Type), Related_Coverage relationships *)
(* between a paragraph and a Coverage node, and the Policy_Type values     *)
(* found on nodes and on relationships.                                    *)
(***************************************************************************)
Paragraph(form, number, type, text) ==
    [ Policy_Form |-> form, Paragraph_Number |-> number, Type |-> type,
      Section |-> "SECTION I", Subsection |-> "Perils", List_Item |-> "a",
      Page |-> 1, Text |-> text ]

MapsTo(p, mapType, term) == [ p |-> p, Map_Type |-> mapType, Term |-> term ]

\* get_forms: MATCH (n:Form) RETURN {State, Form_Type, Form_Name, Form_Number}
FormsQuery(st) ==
    Unordered(ReturnAll([ n \in st.Forms |->
        [ State |-> n.State, Form_Type |-> n.Form_Type,
          Form_Name |-> n.Form_Name, Form_Number |-> n.Form_Number ] ]))

\* One part of get_policy_types' UNION ALL: RETURN DISTINCT ... LIMIT 25;
\* the handler renames Policy_Type to policy_type.
PolicyTypesPart(entity, values) ==
    { Take(s, Limit) : s \in Unordered(ReturnDistinct([ v \in values |->
        [ entity |-> entity, policy_type |-> v ] ])) }

\* get_policy_types: the node part, then the relationship part.
PolicyTypesQuery(st) ==
    { a \o b : a \in PolicyTypesPart("node", st.NodePolicyTypes),
               b \in PolicyTypesPart("relationship", st.RelPolicyTypes) }

\* get_coverages: MATCH (n:Coverage) RETURN n LIMIT 25
CoveragesQuery(st) ==
    { Take(s, Limit) : s \in Unordered(ReturnAll([ n \in st.Coverages |-> n ])) }

\* get_policy_type_by_form: MATCH (f:Form) WHERE f.Form_Number = $form_number
PolicyTypeByFormQuery(st, form_number) ==
    Unordered(ReturnAll([ f \in { x \in st.Forms : x.Form_Number = form_number } |->
                            [ policy_type |-> f.Form_Type ] ]))

\* Result.single(): None without a record, else the first record (with a
\* warning when there are more).
Single(rows) == IF Len(rows) = 0 THEN NoRecord ELSE rows[1]

\* get_coverages_by_form: RETURN DISTINCT ... ORDER BY c.Coverage
CoveragesByFormQuery(st, form_number) ==
    LET bag == ReturnDistinct(
                 [ y \in { x \in st.Related_Coverage :
                             st.Paragraphs[x.p].Policy_Form = form_number } |->
                     [ coverage_code |-> y.c.Coverage, coverage_name |-> y.c.Cov_For ] ])
    IN  OrderBy(bag, [ row \in DOMAIN bag |-> << StrIndex(row.coverage_code) >> ])

\* get_coverage_terms: RETURN DISTINCT ... ORDER BY c.Coverage, x.Map_Type, m.Term
CoverageTermsQuery(st, form_number, coverage_code) ==
    LET bag == ReturnDistinct(
                 [ m \in { x \in st.Maps_To \X st.Related_Coverage :
                             /\ x[1].p = x[2].p
                             /\ st.Paragraphs[x[1].p].Policy_Form = form_number
                             /\ x[1].Map_Type # "None"
                             /\ x[2].c.Coverage = coverage_code
                             /\ st.Paragraphs[x[1].p].Type # "Section Title"
                             /\ st.Paragraphs[x[1].p].Type # "Subsection Title" } |->
                     [ coverage_code |-> m[2].c.Coverage,
                       map_type |-> m[1].Map_Type,
                       term |-> m[1].Term ] ])
    IN  OrderBy(bag, [ row \in DOMAIN bag |->
                         << StrIndex(row.coverage_code), StrIndex(row.map_type),
                            StrIndex(row.term) >> ])

\* get_ccq_list: the query, then the grouping loop over its rows.
CcqMatches(st, policy_form) ==
    { r \in st.Maps_To :
        /\ r.Map_Type \in CcqMapTypes
        /\ st.Paragraphs[r.p].Policy_Form = policy_form }

\* The query without DISTINCT: one row per matching relationship.
CcqReturnEveryMatch(matches) ==
    ReturnAll([ r \in matches |-> [ mapType |-> r.Map_Type, term |-> r.Term ] ])

CcqReturn(matches) ==
    ReturnDistinct([ r \in matches |-> [ mapType |-> r.Map_Type, term |-> r.Term ] ])

\* ORDER BY term
CcqOrderKey(row) == << StrIndex(row.term) >>

CcqQuery(st, policy_form) ==
    LET bag == CcqReturn(CcqMatches(st, policy_form))
    IN  OrderBy(bag, [ row \in DOMAIN bag |-> CcqOrderKey(row) ])

RECURSIVE CcqGroups(_, _)
CcqGroups(rows, groups) ==
    IF rows = << >> THEN groups
    ELSE LET map_type == rows[1].mapType
             term     == rows[1].term
             started  == IF map_type \notin DOMAIN groups
                         THEN [ k \in DOMAIN groups \cup {map_type} |->
                                  IF k = map_type THEN << >> ELSE groups[k] ]
                         ELSE groups
         IN  CcqGroups(Tail(rows),
                       [ started EXCEPT ![map_type] = Append(@, term) ])

\* The empty dict {}.
EmptyGroups == [ k \in {} |-> << >> ]

\* get_all_paragraphs: RETURN ... ORDER BY p.Paragraph_Number
AllParagraphsQuery(st, policy_form) ==
    LET bag == ReturnAll(
                 [ p \in { x \in DOMAIN st.Paragraphs :
                             st.Paragraphs[x].Policy_Form = policy_form } |->
                     [ ParagraphNumber |-> st.Paragraphs[p].Paragraph_Number,
                       Section |-> st.Paragraphs[p].Section,
                       Subsection |-> st.Paragraphs[p].Subsection,
                       Text |-> st.Paragraphs[p].Text,
                       Page |-> st.Paragraphs[p].Page ] ])
    IN  OrderBy(bag, [ row \in DOMAIN bag |-> << row.ParagraphNumber >> ])

\* query_paragraphs: the WHERE clause, then RETURN DISTINCT ... ORDER BY.
\* terms is request.terms; paragraph_numbers the stringified
\* manually_selected_paragraphs (empty when the field is None).
ParagraphNumbers(manually_selected_paragraphs) ==
    LET nums == IF manually_selected_paragraphs.given
                THEN manually_selected_paragraphs.items ELSE << >>
    IN  [ i \in DOMAIN nums |-> PyStr(nums[i]) ]

TermClause(st, p, terms) ==
    /\ \E r \in st.Maps_To : r.p = p
    /\ \E i \in DOMAIN terms :
         \E r \in st.Maps_To : r.p = p /\ r.Term = terms[i]

TitleClause(st, p) == st.Paragraphs[p].Type = "Policy Title Section"

ManualClause(st, p, paragraph_numbers) ==
    \E i \in DOMAIN paragraph_numbers :
        CypherToString(st.Paragraphs[p].Paragraph_Number) = paragraph_numbers[i]

\* The WHERE clause with the manual selection bound inside the mapping test:
\* a selected paragraph is kept only when it maps to some Map_Term.
QueryWhereManualNeedsMapping(st, p, policy_form, terms, paragraph_numbers) ==
    /\ st.Paragraphs[p].Policy_Form = policy_form
    /\ \/ TermClause(st, p, terms)
       \/ TitleClause(st, p)
       \/ /\ \E r \in st.Maps_To : r.p = p
          /\ ManualClause(st, p, paragraph_numbers)

QueryWhere(st, p, policy_form, terms, paragraph_numbers) ==
    /\ st.Paragraphs[p].Policy_Form = policy_form
    /\ \/ TermClause(st, p, terms)
       \/ TitleClause(st, p)
       \/ ManualClause(st, p, paragraph_numbers)

QueryRow(st, p) ==
    [ Section |-> st.Paragraphs[p].Section,
      Subsection |-> st.Paragraphs[p].Subsection,
      ListItem |-> st.Paragraphs[p].List_Item,
      Type |-> st.Paragraphs[p].Type,
      ParagraphNumber |-> st.Paragraphs[p].Paragraph_Number,
      Page |-> st.Paragraphs[p].Page,
      Text |-> st.Paragraphs[p].Text ]

\* ORDER BY p.Paragraph_Number
QueryOrderKey(row) == << row.ParagraphNumber >>

ParagraphsQuery(st, policy_form, terms, manually_selected_paragraphs) ==
    LET bag == ReturnDistinct(
                 [ p \in { x \in DOMAIN st.Paragraphs :
                             QueryWhere(st, x, policy_form, terms,
                                ParagraphNumbers(manually_selected_paragraphs)) } |->
                     QueryRow(st, p) ])
    IN  OrderBy(bag, [ row \in DOMAIN bag |-> QueryOrderKey(row) ])

(***************************************************************************)
(* Routing.  A URL is its sequence of path segments; a route is a method,  *)
(* a path of literal and parameter segments, and its handler.  A path      *)
(* parameter matches one non-empty segment.  main.py mounts the router     *)
(* under /api/v1/graph and adds /health.                                   *)
(***************************************************************************)
Lit(name) == [ kind |-> "lit", name |-> name ]

Param(name) == [ kind |-> "param", name |-> name ]

\* The routes graph.py registers on its APIRouter.
RouterRoutes ==
    { [ method |-> "GET", path |-> << Lit("forms") >>, handler |-> "get_forms" ],
      [ method |-> "GET", path |-> << Lit("policy-types") >>, handler |-> "get_policy_types" ],
      [ method |-> "GET", path |-> << Lit("coverages") >>, handler |-> "get_coverages" ],
      [ method |-> "GET", path |-> << Lit("form-policy-type"), Param("form_number") >>,
        handler |-> "get_policy_type_by_form" ],
      [ method |-> "GET", path |-> << Lit("form-coverages"), Param("form_number") >>,
        handler |-> "get_coverages_by_form" ],
      [ method |-> "GET",
        path |-> << Lit("form-coverage-terms"), Param("form_number"), Param("coverage_code") >>,
        handler |-> "get_coverage_terms" ],
      [ method |-> "GET", path |-> << Lit("ccq-list") >>, handler |-> "get_ccq_list" ],
      [ method |-> "GET", path |-> << Lit("all-paragraphs") >>, handler |-> "get_all_paragraphs" ],
      [ method |-> "POST", path |-> << Lit("query") >>, handler |-> "query_paragraphs" ] }

GraphPrefix == << Lit("api"), Lit("v1"), Lit("graph") >>

\* app.include_router(graph.router, prefix="/api/v1/graph") and @app.get("/health").
AppRoutes ==
    { [ method |-> rt.method, path |-> GraphPrefix \o rt.path, handler |-> rt.handler ]
        : rt \in RouterRoutes }
    \cup { [ method |-> "GET", path |-> << Lit("health") >>, handler |-> "health_check" ] }

PathMatches(path, url) ==
    /\ Len(path) = Len(url)
    /\ \A i \in DOMAIN path :
          IF path[i].kind = "lit" THEN url[i] = path[i].name ELSE url[i] # ""

RouteMatches(rt, method, url) == rt.method = method /\ PathMatches(rt.path, url)

\* The handler a request is dispatched to; "redirect" when only the URL
\* without its trailing slash matches, "not_found" when no route does.
Resolve(method, url) ==
    IF \E rt \in AppRoutes : RouteMatches(rt, method, url)
    THEN (CHOOSE rt \in AppRoutes : RouteMatches(rt, method, url)).handler
    ELSE IF /\ Len(url) > 1
            /\ url[Len(url)] = ""
            /\ \E rt \in AppRoutes : RouteMatches(rt, method, SubSeq(url, 1, Len(url) - 1))
         THEN "redirect"
         ELSE "not_found"

\* The value of path parameter `name`, "" when the route has none.
PathParam(method, url, name) ==
    LET rt == CHOOSE x \in AppRoutes : RouteMatches(x, method, url)
    IN  IF \E i \in DOMAIN rt.path : rt.path[i] = Param(name)
        THEN url[CHOOSE i \in DOMAIN rt.path : rt.path[i] = Param(name)]
        ELSE ""

\* Handlers that depend on get_neo4j_session.
GraphHandlers == { rt.handler : rt \in RouterRoutes }

(***************************************************************************)
(* Request bodies and query strings.  A body is absent, not JSON, or a     *)
(* JSON object with or without each QueryRequest field.  The policy_form   *)
(* query parameter is given or left to its default.                        *)
(***************************************************************************)
NoBody ==
    [ present |-> FALSE, json |-> TRUE, has_terms |-> FALSE, terms |-> << >>,
      has_policy_form |-> FALSE, policy_form |-> "",
      manually_selected_paragraphs |-> NoList ]

NotJson == [ NoBody EXCEPT !.present = TRUE, !.json = FALSE ]

JsonWithoutTerms == [ NoBody EXCEPT !.present = TRUE ]

JsonBody(terms, manual) ==
    [ NoBody EXCEPT !.present = TRUE, !.has_terms = TRUE, !.terms = terms,
                    !.manually_selected_paragraphs = manual ]

NoParam == [ given |-> FALSE, value |-> "" ]

GivenParam(v) == [ given |-> TRUE, value |-> v ]

\* A QueryRequest whose terms default to the empty list.
QueryRequestErrorsTermsOptional(body) == ~ body.present

\* class QueryRequest: terms is required, policy_form defaults to
\* "HO00030511", manually_selected_paragraphs to None.  TRUE when the body
\* does not validate.
QueryRequestErrors(body) == ~ body.present \/ ~ body.has_terms

QueryRequestPolicyForm(body) ==
    IF body.has_policy_form THEN body.policy_form ELSE DefaultPolicyForm

\* policy_form: str = "HO00030511" of get_ccq_list and get_all_paragraphs.
PolicyFormParam(query) == IF query.given THEN query.value ELSE DefaultPolicyForm

(***************************************************************************)
(* Responses.  detail is the message of an error response and cause the    *)
(* text of the exception embedded in it ("" when none is); content is the  *)
(* JSON value of a success.                                                *)
(***************************************************************************)
Response(status, detail, cause, content) ==
    [ status |-> status, detail |-> detail, cause |-> cause, content |-> content ]

NoResponse == Response(0, "", "", << >>)

Ok(content) == Response(200, "", "", content)

\* raise HTTPException(status_code, detail)
HttpError(status, detail, cause) == Response(status, detail, cause, << >>)

\* An exception no handler catches: the server's plain 500.
InternalServerError == HttpError(500, "Internal Server Error", "")

NotFoundResponse == HttpError(404, "Not Found", "")

UnprocessableEntity == HttpError(422, "validation error", "")

\* The prefix of each handler's `except Exception` message.
ErrorPrefix(handler) ==
    CASE handler = "get_forms" -> "Failed to fetch forms"
      [] handler = "get_policy_types" -> "Failed to fetch policy types"
      [] handler = "get_coverages" -> "Failed to fetch coverages"
      [] handler = "get_policy_type_by_form" -> "Failed to fetch policy type"
      [] handler = "get_coverages_by_form" -> "Failed to fetch coverages"
      [] handler = "get_coverage_terms" -> "Failed to fetch coverage terms"
      [] handler = "get_ccq_list" -> "Failed to fetch CCQ list"
      [] handler = "get_all_paragraphs" -> "Failed to fetch all paragraphs"
      [] handler = "query_paragraphs" -> "Failed to execute query"

\* Outcome of a handler's try block: a returned value or a raised exception.
Return(content) == [ raised |-> FALSE, resp |-> Ok(content) ]

Raise(resp) == [ raised |-> TRUE, resp |-> resp ]

\* A handler that answers an exception with an empty success.
ExceptExceptionReturnsEmpty(handler, outcome) ==
    IF outcome.raised THEN Ok(<< >>) ELSE outcome.resp

\* except Exception as e: raise HTTPException(500, f"<prefix>: {str(e)}").
\* HTTPException is an Exception, so one raised in the try block is caught
\* here as well and its status is replaced by 500.
ExceptException(handler, outcome) ==
    IF outcome.raised
    THEN HttpError(500, ErrorPrefix(handler),
                   IF outcome.resp.cause # "" THEN outcome.resp.cause
                   ELSE outcome.resp.detail)
    ELSE outcome.resp

(***************************************************************************)
(* The handlers.  HandlerQuery is the set of row sequences neo4j.run may   *)
(* deliver for the handler's query and bound parameters; HandlerBody is    *)
(* what the try block does with the rows it has read.                      *)
(***************************************************************************)
HandlerQuery(st, req) ==
    LET form_number   == PathParam(req.method, req.url, "form_number")
        coverage_code == PathParam(req.method, req.url, "coverage_code")
    IN  CASE req.handler = "get_forms" -> FormsQuery(st)
          [] req.handler = "get_policy_types" -> PolicyTypesQuery(st)
          [] req.handler = "get_coverages" -> CoveragesQuery(st)
          [] req.handler = "get_policy_type_by_form" ->
                PolicyTypeByFormQuery(st, form_number)
          [] req.handler = "get_coverages_by_form" ->
                CoveragesByFormQuery(st, form_number)
          [] req.handler = "get_coverage_terms" ->
                CoverageTermsQuery(st, form_number, coverage_code)
          [] req.handler = "get_ccq_list" -> CcqQuery(st, PolicyFormParam(req.query))
          [] req.handler = "get_all_paragraphs" ->
                AllParagraphsQuery(st, PolicyFormParam(req.query))
          [] req.handler = "query_paragraphs" ->
                ParagraphsQuery(st, QueryRequestPolicyForm(req.body), req.body.terms,
                                req.body.manually_selected_paragraphs)

\* A listing handler that answers an empty result with 404, as
\* get_policy_type_by_form does.
ListHandlerBodyNotFoundOnEmpty(rows) ==
    IF rows = << >> THEN Raise(HttpError(404, "Not found", ""))
    ELSE Return(rows)

\* `if not forms: return []` ... `return forms` of the listing handlers;
\* get_all_paragraphs and query_paragraphs return the list as it is.
ListHandlerBody(rows) == IF rows = << >> THEN Return(<< >>) ELSE Return(rows)

\* get_policy_type_by_form after neo4j.run: single(), 404 without a record.
PolicyTypeByFormBody(rows) ==
    LET record == Single(rows)
    IN  IF record = NoRecord
        THEN Raise(HttpError(404, "Form not found with form number", ""))
        ELSE Return([ policy_type |-> record.policy_type ])

HandlerBody(handler, rows) ==
    CASE handler = "get_policy_type_by_form" -> PolicyTypeByFormBody(rows)
      [] handler = "get_ccq_list" -> Return(CcqGroups(rows, EmptyGroups))
      [] OTHER -> ListHandlerBody(rows)

\* health_check of main.py.
HealthContent ==
    [ status |-> "healthy", version |-> "1.0.0", environment |-> "development" ]

(***************************************************************************)
(* Drivers and sessions.  drivers and sessions list every driver and       *)
(* session created so far, with the request that created it; a request     *)
(* holds the index of its driver and of its session (0: not bound).        *)
(***************************************************************************)
\* GraphDatabase.driver(uri, auth=...): a new driver object.
CreatedDriver(table, r) ==
    [ table |-> Append(table, [ owner |-> r, state |-> "open" ]),
      id |-> Len(table) + 1 ]

\* A session kept in one module-level object and handed to every request.
SharedSession(table, r, driver) ==
    [ table |-> IF table = << >>
                THEN << [ owner |-> r, driver |-> driver, state |-> "open", users |-> {} ] >>
                ELSE table,
      id |-> 1 ]

\* A session opened in a `with` block that returns it: the handler receives
\* a session that has been closed already.
ReturnedSession(table, r, driver) ==
    [ table |-> Append(table, [ owner |-> r, driver |-> driver,
                                state |-> "closed", users |-> {} ]),
      id |-> Len(table) + 1 ]

\* driver.session(database=...): a new session object of that driver.
OpenedSession(table, r, driver) ==
    [ table |-> Append(table, [ owner |-> r, driver |-> driver,
                                state |-> "open", users |-> {} ]),
      id |-> Len(table) + 1 ]

\* Where a handler goes when neo4j.run raises: retry the query.
AfterQueryErrorRetry == "run"

\* Where a handler goes when neo4j.run raises: the except clause raises the
\* HTTPException and the dependency's finally block runs.
AfterQueryError == "session_close"

(***************************************************************************)
(* The life of a request.                                                  *)
(***************************************************************************)
IdleRequest ==
    [ pc |-> "idle", method |-> "", url |-> << >>, query |-> NoParam,
      body |-> NoBody, handler |-> "", driver |-> 0, session |-> 0,
      rows |-> << >>, resp |-> NoResponse, fault |-> "", runs |-> 0,
      connects |-> 0, entered |-> FALSE ]

IdleRequests == [ r \in 1..NumRequests |-> IdleRequest ]

\* The first store failure of a request is kept in fault; runs counts the
\* calls of neo4j.run, connects those of GraphDatabase.driver, and entered
\* tells that the handler was called.
Faulted(req, e) == IF req.fault = "" THEN e ELSE req.fault

\* The application receives a request: routing, then (for POST /query) the
\* reading of the JSON body, before any dependency is solved.
Receive(r, inputs) ==
    /\ reqs[r].pc = "idle"
    /\ \E in \in inputs :
         LET handler == Resolve(in.method, in.url)
             arrived == [ reqs[r] EXCEPT !.method = in.method, !.url = in.url,
                                         !.query = in.query, !.body = in.body,
                                         !.handler = handler ]
         IN  reqs' = [ reqs EXCEPT ![r] =
                CASE handler = "not_found" ->
                        [ arrived EXCEPT !.pc = "done", !.resp = NotFoundResponse ]
                  [] handler = "redirect" ->
                        [ arrived EXCEPT !.pc = "done",
                                         !.resp = Response(307, "", "", << >>) ]
                  [] handler = "health_check" ->
                        [ arrived EXCEPT !.pc = "done", !.resp = Ok(HealthContent) ]
                  [] handler = "query_paragraphs" /\ in.body.present /\ ~ in.body.json ->
                        [ arrived EXCEPT !.pc = "done", !.resp = UnprocessableEntity ]
                  [] OTHER -> [ arrived EXCEPT !.pc = "driver" ] ]
    /\ UNCHANGED <<store, drivers, sessions, probe>>

\* get_neo4j_driver: GraphDatabase.driver(...) returns a driver.
DriverCreated(r) ==
    /\ reqs[r].pc = "driver"
    /\ LET new == CreatedDriver(drivers, r)
       IN  /\ drivers' = new.table
           /\ reqs' = [ reqs EXCEPT ![r].pc = "verify_connectivity",
                                    ![r].driver = new.id,
                                    ![r].connects = @ + 1 ]
    /\ UNCHANGED <<store, sessions, probe>>

\* get_neo4j_driver: GraphDatabase.driver(...) raises; the except clause
\* turns it into HTTPException 500.
DriverCreationFails(r) ==
    /\ reqs[r].pc = "driver"
    /\ reqs' = [ reqs EXCEPT ![r].pc = "done",
                             ![r].connects = @ + 1,
                             ![r].fault = Faulted(reqs[r], "ConfigurationError"),
                             ![r].resp = HttpError(500, "Database connection failed",
                                                   "ConfigurationError") ]
    /\ UNCHANGED <<store, drivers, sessions, probe>>

\* get_neo4j_driver: driver.verify_connectivity() succeeds; return driver.
ConnectivityVerified(r) ==
    /\ reqs[r].pc = "verify_connectivity"
    /\ reqs' = [ reqs EXCEPT ![r].pc = "session" ]
    /\ UNCHANGED <<store, drivers, sessions, probe>>

\* get_neo4j_driver: driver.verify_connectivity() raises; the except clause
\* raises HTTPException 500 and the driver object is dropped as it is.
ConnectivityFails(r) ==
    /\ reqs[r].pc = "verify_connectivity"
    /\ reqs' = [ reqs EXCEPT ![r].pc = "done",
                             ![r].fault = Faulted(reqs[r], "ServiceUnavailable"),
                             ![r].resp = HttpError(500, "Database connection failed",
                                                   "ServiceUnavailable") ]
    /\ UNCHANGED <<store, drivers, sessions, probe>>

\* get_neo4j_session: session = driver.session(...); yield session.
SessionOpened(r) ==
    /\ reqs[r].pc = "session"
    /\ LET new == OpenedSession(sessions, r, reqs[r].driver)
       IN  /\ sessions' = new.table
           /\ reqs' = [ reqs EXCEPT ![r].pc = "solve_params", ![r].session = new.id ]
    /\ UNCHANGED <<store, drivers, probe>>

\* get_neo4j_session: driver.session(...) raises; `session` stays unbound
\* and the finally block runs with the exception in flight.
SessionOpenFails(r) ==
    /\ reqs[r].pc = "session"
    /\ reqs' = [ reqs EXCEPT ![r].pc = "session_close",
                             ![r].fault = Faulted(reqs[r], "DriverError"),
                             ![r].resp = InternalServerError ]
    /\ UNCHANGED <<store, drivers, sessions, probe>>

\* With the dependency solved, the parameters and the body are validated;
\* a body that is no QueryRequest is answered 422 and the handler not called.
SolveParams(r) ==
    /\ reqs[r].pc = "solve_params"
    /\ reqs' = [ reqs EXCEPT ![r] =
          IF @.handler = "query_paragraphs" /\ QueryRequestErrors(@.body)
          THEN [ @ EXCEPT !.pc = "session_close", !.resp = UnprocessableEntity ]
          ELSE [ @ EXCEPT !.pc = "run", !.entered = TRUE ] ]
    /\ UNCHANGED <<store, drivers, sessions, probe>>

\* The handler: result = neo4j.run(query, ...) succeeds.
QueryRuns(r) ==
    /\ reqs[r].pc = "run"
    /\ \E rows \in HandlerQuery(store, reqs[r]) :
          reqs' = [ reqs EXCEPT ![r].pc = "iterate", ![r].rows = rows,
                                ![r].runs = @ + 1 ]
    /\ sessions' = [ sessions EXCEPT ![reqs[r].session].users = @ \cup {r} ]
    /\ UNCHANGED <<store, drivers, probe>>

\* The handler: neo4j.run raises; except Exception raises HTTPException 500.
QueryFails(r) ==
    /\ reqs[r].pc = "run"
    /\ reqs' = [ reqs EXCEPT ![r].pc = AfterQueryError,
                             ![r].runs = @ + 1,
                             ![r].fault = Faulted(reqs[r], "ClientError"),
                             ![r].resp = ExceptException(reqs[r].handler,
                                            Raise(HttpError(0, "", "ClientError"))) ]
    /\ sessions' = [ sessions EXCEPT ![reqs[r].session].users = @ \cup {r} ]
    /\ UNCHANGED <<store, drivers, probe>>

\* The handler reads every row (the list comprehension, the grouping loop
\* or single()) and finishes its try block.
RowsConsumed(r) ==
    /\ reqs[r].pc = "iterate"
    /\ reqs' = [ reqs EXCEPT ![r].pc = "session_close",
                             ![r].resp = ExceptException(reqs[r].handler,
                                            HandlerBody(reqs[r].handler, reqs[r].rows)) ]
    /\ UNCHANGED <<store, drivers, sessions, probe>>

\* Reading the rows raises (the connection is lost while streaming).
RowsFail(r) ==
    /\ reqs[r].pc = "iterate"
    /\ reqs' = [ reqs EXCEPT ![r].pc = "session_close",
                             ![r].fault = Faulted(reqs[r], "SessionExpired"),
                             ![r].resp = ExceptException(reqs[r].handler,
                                            Raise(HttpError(0, "", "SessionExpired"))) ]
    /\ UNCHANGED <<store, drivers, sessions, probe>>

\* get_neo4j_session, finally: session.close().  With `session` unbound the
\* statement raises UnboundLocalError, which leaves the finally block.
SessionClosed(r) ==
    /\ reqs[r].pc = "session_close"
    /\ IF reqs[r].session = 0
       THEN /\ reqs' = [ reqs EXCEPT ![r].pc = "done", ![r].resp = InternalServerError ]
            /\ UNCHANGED sessions
       ELSE /\ sessions' = [ sessions EXCEPT ![reqs[r].session].state = "closed" ]
            /\ reqs' = [ reqs EXCEPT ![r].pc = "driver_close" ]
    /\ UNCHANGED <<store, drivers, probe>>

\* get_neo4j_session, finally: driver.close(); the response goes out.
DriverClosed(r) ==
    /\ reqs[r].pc = "driver_close"
    /\ drivers' = [ drivers EXCEPT ![reqs[r].driver].state = "closed" ]
    /\ reqs' = [ reqs EXCEPT ![r].pc = "done" ]
    /\ UNCHANGED <<store, sessions, probe>>

(***************************************************************************)
(* Value universes of the stores and the empty probe.                      *)
(***************************************************************************)
PolicyForms == { DefaultPolicyForm, OtherForm }

ParagraphNumberValues == { 2, 10 }

ParagraphTypes == { "Policy Title Section", "Exclusion" }

MapTypeValues == { "Non-Covered Peril", "Limit of Liability", "Covered Peril" }

NoProbe == [ op |-> "none" ]

GraphStore(paragraphs, mapsTo) ==
    [ Forms |-> {}, Coverages |-> {}, Paragraphs |-> paragraphs,
      Maps_To |-> mapsTo, Related_Coverage |-> {},
      NodePolicyTypes |-> {}, RelPolicyTypes |-> {} ]

(***************************************************************************)
(* Spec: one client sends one request, any route with any of the inputs    *)
(* below, to a store that is empty or holds the sample graph.  SpecConc:   *)
(* NumRequests requests are in flight together against the sample graph.   *)
(***************************************************************************)
EmptyStore == GraphStore(<< >>, {})

CoverageA == [ Coverage |-> "A", Cov_For |-> "Dwelling" ]

CoverageB == [ Coverage |-> "B", Cov_For |-> "Other Structures" ]

SampleStore ==
    [ Forms |-> { [ State |-> "TX", Form_Type |-> "Homeowners",
                    Form_Name |-> "Special Form", Form_Number |-> DefaultPolicyForm ] },
      Coverages |-> { CoverageA, CoverageB },
      Paragraphs |-> << Paragraph(DefaultPolicyForm, 2, "Policy Title Section", "title"),
                        Paragraph(DefaultPolicyForm, 10, "Exclusion", "flood damage") >>,
      Maps_To |-> { MapsTo(2, "Non-Covered Peril", "flood"),
                    MapsTo(2, "Limit of Liability", "fire") },
      Related_Coverage |-> { [ p |-> 2, c |-> CoverageA ] },
      NodePolicyTypes |-> { "HO3" },
      RelPolicyTypes |-> {} ]

Stores == { EmptyStore, SampleStore }

GraphUrl(segments) == << "api", "v1", "graph" >> \o segments

Request(method, url, query, body) ==
    [ method |-> method, url |-> url, query |-> query, body |-> body ]

Get(url) == Request("GET", url, NoParam, NoBody)

FormNumberInputs == { DefaultPolicyForm, OtherForm, "" }

ClientRequests ==
    { Get(GraphUrl(<< name >>)) :
        name \in { "forms", "policy-types", "coverages", "test-connection" } }
    \cup { Get(<< "health" >>), Get(GraphUrl(<< "forms", "" >>)) }
    \cup { Get(GraphUrl(<< name, f >>)) :
             name \in { "form-policy-type", "form-coverages" }, f \in FormNumberInputs }
    \cup { Get(GraphUrl(<< "form-coverage-terms", f, c >>)) :
             f \in FormNumberInputs, c \in { "A", "" } }
    \cup { Request("GET", GraphUrl(<< name >>), q, NoBody) :
             name \in { "ccq-list", "all-paragraphs" },
             q \in { NoParam, GivenParam(OtherForm) } }
    \cup { Request("POST", GraphUrl(<< "query" >>), NoParam, b) :
             b \in { NoBody, NotJson, JsonWithoutTerms,
                     JsonBody(<< >>, NoList),
                     JsonBody(<< "fire" >>, SomeList(<< 10 >>)),
                     [ JsonBody(<< "flood" >>, NoList) EXCEPT
                          !.has_policy_form = TRUE, !.policy_form = OtherForm ] } }

ConcRequests ==
    { Get(GraphUrl(<< "forms" >>)),
      Get(GraphUrl(<< "form-policy-type", OtherForm >>)) }

Init ==
    /\ store \in Stores
    /\ reqs = IdleRequests
    /\ drivers = << >>
    /\ sessions = << >>
    /\ probe = NoProbe

Next ==
    \E r \in { 1 } :
        \/ Receive(r, ClientRequests)
        \/ DriverCreated(r)
        \/ DriverCreationFails(r)
        \/ ConnectivityVerified(r)
        \/ ConnectivityFails(r)
        \/ SessionOpened(r)
        \/ SessionOpenFails(r)
        \/ SolveParams(r)
        \/ QueryRuns(r)
        \/ QueryFails(r)
        \/ RowsConsumed(r)
        \/ RowsFail(r)
        \/ SessionClosed(r)
        \/ DriverClosed(r)

Spec == Init /\ [][Next]_vars

InitConc ==
    /\ store = SampleStore
    /\ reqs = IdleRequests
    /\ drivers = << >>
    /\ sessions = << >>
    /\ probe = NoProbe

NextConc ==
    \E r \in 1..NumRequests :
        \/ Receive(r, ConcRequests)
        \/ DriverCreated(r)
        \/ DriverCreationFails(r)
        \/ ConnectivityVerified(r)
        \/ ConnectivityFails(r)
        \/ SessionOpened(r)
        \/ SessionOpenFails(r)
        \/ SolveParams(r)
        \/ QueryRuns(r)
        \/ QueryFails(r)
        \/ RowsConsumed(r)
        \/ RowsFail(r)
        \/ SessionClosed(r)
        \/ DriverClosed(r)

SpecConc == InitConc /\ [][NextConc]_vars

(***************************************************************************)
(* The queries alone.  SpecQuery draws a store of up to MaxParagraphs      *)
(* paragraphs (any form, number, type and mapped terms) and applies        *)
(* query_paragraphs' query to it; SpecCcq draws a store whose paragraphs   *)
(* carry up to MaxMapsTo Maps_To relationships of any Map_Type in all     *)
(* and applies get_ccq_list's query and grouping.  probe holds the call    *)
(* and its result.                                                         *)
(***************************************************************************)
\* A store for query_paragraphs: attr[p] gives paragraph p's form, number,
\* type and the set of terms it maps to.
ParagraphStore(n, attr) ==
    GraphStore([ p \in 1..n |-> Paragraph(attr[p][1], attr[p][2], attr[p][3], "text") ],
               UNION { { MapsTo(p, "Covered Peril", t) : t \in attr[p][4] }
                       : p \in 1..n })

\* A store for get_ccq_list: form[p] is paragraph p's form, mapsTo the
\* Maps_To relationships as (paragraph, Map_Type, Term) triples.
CcqStore(n, form, mapsTo) ==
    GraphStore([ p \in 1..n |-> Paragraph(form[p], p, "Exclusion", "text") ],
               { MapsTo(m[1], m[2], m[3]) : m \in mapsTo })

TermsInputs == { << >>, << "fire" >>, << "fire", "flood" >> }

ManualInputs == { NoList, SomeList(<< 1 >>), SomeList(<< 10 >>), SomeList(<< 2, 10 >>) }

InitQuery ==
    /\ \E n \in 0..MaxParagraphs :
         \E attr \in [ 1..n -> PolicyForms \X ParagraphNumberValues
                                \X ParagraphTypes \X SUBSET Terms ] :
            store = ParagraphStore(n, attr)
    /\ reqs = IdleRequests
    /\ drivers = << >>
    /\ sessions = << >>
    /\ probe = NoProbe

ApplyQueryParagraphs ==
    /\ probe = NoProbe
    /\ \E terms \in TermsInputs, manual \in ManualInputs :
         \E rows \in ParagraphsQuery(store, DefaultPolicyForm, terms, manual) :
            probe' = [ op |-> "query_paragraphs", policy_form |-> DefaultPolicyForm,
                       terms |-> terms, manually_selected_paragraphs |-> manual,
                       result |-> rows ]
    /\ UNCHANGED <<store, reqs, drivers, sessions>>

NextQuery == ApplyQueryParagraphs

SpecQuery == InitQuery /\ [][NextQuery]_vars

InitCcq ==
    /\ \E n \in 0..MaxParagraphs :
         \E form \in [ 1..n -> PolicyForms ] :
            \E mapsTo \in SUBSET ((1..n) \X MapTypeValues \X Terms) :
               /\ Cardinality(mapsTo) <= MaxMapsTo
               /\ store = CcqStore(n, form, mapsTo)
    /\ reqs = IdleRequests
    /\ drivers = << >>
    /\ sessions = << >>
    /\ probe = NoProbe

ApplyCcqList ==
    /\ probe = NoProbe
    /\ \E policy_form \in PolicyForms :
         \E rows \in CcqQuery(store, policy_form) :
            probe' = [ op |-> "get_ccq_list", policy_form |-> policy_form,
                       rows |-> rows, result |-> CcqGroups(rows, EmptyGroups) ]
    /\ UNCHANGED <<store, reqs, drivers, sessions>>

NextCcq == ApplyCcqList

SpecCcq == InitCcq /\ [][NextCcq]_vars

(***************************************************************************)
(* C6: query_paragraphs returns exactly the paragraphs of the given form   *)
(* that map to a Map_Term whose Term is among `terms`, or are of Type      *)
(* "Policy Title Section", or whose number is among the manually selected  *)
(* numbers; each row once, in ascending ParagraphNumber; with no terms and *)
(* no manual selection, exactly the title sections of the form.            *)
(***************************************************************************)
C6_Row(p) ==
    [ Section |-> store.Paragraphs[p].Section,
      Subsection |-> store.Paragraphs[p].Subsection,
      ListItem |-> store.Paragraphs[p].List_Item,
      Type |-> store.Paragraphs[p].Type,
      ParagraphNumber |-> store.Paragraphs[p].Paragraph_Number,
      Page |-> store.Paragraphs[p].Page,
      Text |-> store.Paragraphs[p].Text ]

C6_Manual == IF probe.manually_selected_paragraphs.given
             THEN Range(probe.manually_selected_paragraphs.items) ELSE {}

C6_Selected ==
    { p \in DOMAIN store.Paragraphs :
        /\ store.Paragraphs[p].Policy_Form = probe.policy_form
        /\ \/ \E r \in store.Maps_To : r.p = p /\ r.Term \in Range(probe.terms)
           \/ store.Paragraphs[p].Type = "Policy Title Section"
           \/ store.Paragraphs[p].Paragraph_Number \in C6_Manual }

C6_QueryParagraphsExact ==
    probe.op = "query_paragraphs" =>
        /\ Range(probe.result) = { C6_Row(p) : p \in C6_Selected }
        /\ \A i, j \in DOMAIN probe.result :
              i < j => /\ probe.result[i] # probe.result[j]
                       /\ probe.result[i].ParagraphNumber
                            <= probe.result[j].ParagraphNumber
        /\ (probe.terms = << >> /\ ~ probe.manually_selected_paragraphs.given) =>
              Range(probe.result) =
                 { C6_Row(p) : p \in { q \in DOMAIN store.Paragraphs :
                      /\ store.Paragraphs[q].Policy_Form = probe.policy_form
                      /\ store.Paragraphs[q].Type = "Policy Title Section" } }

\* A manually selected paragraph that maps to no requested term and is no
\* title section is returned, after a paragraph with a smaller number.
C6_Witness ==
    /\ probe.op = "query_paragraphs"
    /\ probe.manually_selected_paragraphs = SomeList(<< 10 >>)
    /\ Len(probe.result) = 2
    /\ probe.result[1].ParagraphNumber = 2
    /\ probe.result[2].ParagraphNumber = 10
    /\ probe.result[2].Type = "Exclusion"
    /\ \E p \in DOMAIN store.Paragraphs :
          /\ store.Paragraphs[p].Paragraph_Number = 10
          /\ ~ \E r \in store.Maps_To : r.p = p

(***************************************************************************)
(* C7: the object get_ccq_list returns has keys among the three CCQ map    *)
(* types, and under each key a list of terms in ascending order without    *)
(* a repeated term.                                                        *)
(***************************************************************************)
C7_CcqKeysSortedDistinct ==
    probe.op = "get_ccq_list" =>
        /\ DOMAIN probe.result \subseteq
              { "Non-Covered Peril", "Limit of Liability", "Property Not Covered" }
        /\ \A k \in DOMAIN probe.result :
              \A i, j \in DOMAIN probe.result[k] :
                 i < j => /\ probe.result[k][i] # probe.result[k][j]
                          /\ StrIndex(probe.result[k][i]) < StrIndex(probe.result[k][j])

\* Two paragraphs of the form map to the same term under the same map type,
\* one maps to a second term under it and one to a term under a map type
\* outside the three: the key holds the two terms once each.
C7_Witness ==
    /\ probe.op = "get_ccq_list"
    /\ \E k \in DOMAIN probe.result : Len(probe.result[k]) = 2
    /\ \E r1, r2 \in store.Maps_To :
          /\ r1.p # r2.p /\ r1.Map_Type = r2.Map_Type /\ r1.Term = r2.Term
          /\ r1.Map_Type \in DOMAIN probe.result
          /\ store.Paragraphs[r1.p].Policy_Form = probe.policy_form
          /\ store.Paragraphs[r2.p].Policy_Form = probe.policy_form
    /\ \E r \in store.Maps_To :
          /\ r.Map_Type = "Covered Peril"
          /\ store.Paragraphs[r.p].Policy_Form = probe.policy_form

(***************************************************************************)
(* Claims about the life of a request.                                     *)
(***************************************************************************)
Done(r) == reqs[r].pc = "done"

Requests == DOMAIN reqs

\* C1: with the store reachable, get_policy_type_by_form answers 200 with
\* the Form_Type of the form that has the given Form_Number, and 404 when
\* no form has it.
C1_PolicyTypeOr404 ==
    \A r \in Requests :
        (Done(r) /\ reqs[r].handler = "get_policy_type_by_form" /\ reqs[r].fault = "") =>
            LET forms == { f \in store.Forms :
                             f.Form_Number = reqs[r].url[Len(reqs[r].url)] }
            IN  IF forms # {}
                THEN /\ reqs[r].resp.status = 200
                     /\ \E f \in forms :
                           reqs[r].resp.content = [ policy_type |-> f.Form_Type ]
                ELSE reqs[r].resp.status = 404

\* C2: when a request has finished, on whatever path, every driver and
\* every session acquired for it is closed.
C2_ReleasedOnEveryExit ==
    \A r \in Requests :
        Done(r) =>
            /\ \A d \in DOMAIN drivers :
                  drivers[d].owner = r => drivers[d].state = "closed"
            /\ \A x \in DOMAIN sessions :
                  sessions[x].owner = r => sessions[x].state = "closed"

C3_StoreFailures ==
    { "ConfigurationError", "ServiceUnavailable", "ClientError", "SessionExpired" }

\* C3: a request during which the store failed is answered 500, never 200;
\* when the store was unreachable (the driver could not be created or the
\* connectivity check failed) or the query failed (neo4j.run or the reading
\* of its rows), the 500 carries the text of that error.
C3_StoreFailureIs500 ==
    \A r \in Requests :
        (Done(r) /\ reqs[r].fault # "") =>
            /\ reqs[r].resp.status = 500
            /\ reqs[r].fault \in C3_StoreFailures =>
                  reqs[r].resp.cause = reqs[r].fault

\* Every kind of store failure has been answered (one per behaviour): here
\* the rows of a listing were being read when the connection was lost.
C3_Witness ==
    \E r \in Requests :
        /\ Done(r)
        /\ reqs[r].fault = "SessionExpired"
        /\ reqs[r].handler = "get_forms"
        /\ reqs[r].rows # << >>
        /\ reqs[r].resp.status = 500

C4_EmptyPathParam(r) ==
    /\ Len(reqs[r].url) > 4
    /\ reqs[r].url[4] \in { "form-policy-type", "form-coverages", "form-coverage-terms" }
    /\ \E i \in 5..Len(reqs[r].url) : reqs[r].url[i] = ""

C4_PostsQuery(r) ==
    reqs[r].method = "POST" /\ reqs[r].url = << "api", "v1", "graph", "query" >>

C4_NotJson(r) == C4_PostsQuery(r) /\ reqs[r].body.present /\ ~ reqs[r].body.json

C4_TermsMissing(r) ==
    C4_PostsQuery(r) /\ (~ reqs[r].body.present \/ (reqs[r].body.json /\ ~ reqs[r].body.has_terms))

C5_TestConnectionRoute ==
    \A r \in Requests :
        (/\ Done(r)
         /\ reqs[r].method = "GET"
         /\ reqs[r].url = << "api", "v1", "graph", "test-connection" >>) =>
            /\ reqs[r].handler # "not_found"
            /\ reqs[r].runs = 0
            /\ IF reqs[r].fault = "" THEN reqs[r].resp.status = 200
               ELSE reqs[r].resp.status = 500

C8_ZeroRows(r) ==
    /\ Done(r)
    /\ reqs[r].runs = 1
    /\ reqs[r].fault = ""
    /\ reqs[r].rows = << >>

\* C8: a query that ran and delivered no row is answered 200 with an empty
\* array (an empty object by get_ccq_list) by every listing handler, and
\* with an error by get_policy_type_by_form alone.
C8_ZeroRowsIsSuccess ==
    \A r \in Requests :
        C8_ZeroRows(r) =>
            CASE reqs[r].handler = "get_policy_type_by_form" ->
                    reqs[r].resp.status >= 400
              [] reqs[r].handler = "get_ccq_list" ->
                    reqs[r].resp.status = 200 /\ DOMAIN reqs[r].resp.content = {}
              [] reqs[r].handler \in
                    { "get_forms", "get_policy_types", "get_coverages",
                      "get_coverages_by_form", "get_coverage_terms",
                      "get_all_paragraphs", "query_paragraphs" } ->
                    reqs[r].resp.status = 200 /\ reqs[r].resp.content = << >>

\* get_forms found no Form node in the empty store.
C8_Witness ==
    \E r \in Requests :
        /\ C8_ZeroRows(r)
        /\ reqs[r].handler = "get_forms"
        /\ store.Forms = {}
        /\ reqs[r].resp.status = 200

\* C9: a request runs at most one query and creates at most one driver, so
\* nothing is issued again after a failure; a request whose handler was
\* called has run exactly one query when it has finished.
C9_OneQueryNoRetry ==
    \A r \in Requests :
        /\ reqs[r].runs <= 1
        /\ reqs[r].connects <= 1
        /\ (Done(r) /\ reqs[r].entered) => reqs[r].runs = 1

\* A request whose query failed has finished with that one run.
C9_Witness ==
    \E r \in Requests :
        /\ Done(r)
        /\ reqs[r].entered
        /\ reqs[r].fault = "ClientError"
        /\ reqs[r].runs = 1
        /\ reqs[r].resp.status = 500

C10_HoldsSession(r) ==
    reqs[r].pc \in { "solve_params", "run", "iterate", "session_close" }
        /\ reqs[r].session # 0

\* C10: no two requests hold the same driver or the same session, a
\* session runs queries of the request it was opened for only, and while a
\* request is between the opening and the closing of its session, that
\* session and its driver are open, whatever other requests have closed.
C10_PerRequestSession ==
    /\ \A r1, r2 \in Requests :
          r1 # r2 =>
             /\ reqs[r1].session # 0 => reqs[r1].session # reqs[r2].session
             /\ reqs[r1].driver # 0 => reqs[r1].driver # reqs[r2].driver
    /\ \A x \in DOMAIN sessions : sessions[x].users \subseteq { sessions[x].owner }
    /\ \A r \in Requests :
          C10_HoldsSession(r) =>
             /\ sessions[reqs[r].session].state = "open"
             /\ sessions[reqs[r].session].owner = r
             /\ drivers[reqs[r].driver].state = "open"

\* One request has closed its session and driver while another, whose
\* session was opened before that, is still reading its rows.
C10_Witness ==
    \E r1, r2 \in Requests :
        /\ r1 # r2
        /\ Done(r1)
        /\ reqs[r1].session # 0
        /\ reqs[r1].session > reqs[r2].session
        /\ drivers[reqs[r1].driver].state = "closed"
        /\ reqs[r2].pc = "iterate"
        /\ sessions[reqs[r2].session].state = "open"

(***************************************************************************)
(* The events of a request, read off one step of it.                       *)
(***************************************************************************)
\* The place of each position of a request in the order connect, verify
\* connectivity, open session, run query, read rows, close session, close
\* driver.
C11_Stage(pc) ==
    CASE pc = "idle" -> 0
      [] pc = "driver" -> 1
      [] pc = "verify_connectivity" -> 2
      [] pc = "session" -> 3
      [] pc = "solve_params" -> 4
      [] pc = "run" -> 5
      [] pc = "iterate" -> 6
      [] pc = "session_close" -> 7
      [] pc = "driver_close" -> 8
      [] pc = "done" -> 9

C11_SessionOpen(r) ==
    /\ reqs[r].session # 0
    /\ sessions[reqs[r].session].state = "open"

C11_DriverOpen(r) ==
    /\ reqs[r].driver # 0
    /\ drivers[reqs[r].driver].state = "open"

C11_Connects(r) == reqs'[r].connects # reqs[r].connects

C11_OpensSession(r) == reqs[r].session = 0 /\ reqs'[r].session # 0

C11_RunsQuery(r) == reqs'[r].runs # reqs[r].runs

C11_ReadsRows(r) == reqs[r].pc = "iterate" /\ reqs'[r].pc # "iterate"

C11_ClosesSession(r) ==
    /\ C11_SessionOpen(r)
    /\ sessions'[reqs[r].session].state = "closed"

C11_ClosesDriver(r) ==
    /\ C11_DriverOpen(r)
    /\ drivers'[reqs[r].driver].state = "closed"

C11_Step(r) ==
    /\ C11_Stage(reqs'[r].pc) >= C11_Stage(reqs[r].pc)
    /\ C11_Connects(r) => reqs[r].connects = 0 /\ reqs[r].driver = 0
    /\ C11_OpensSession(r) =>
          /\ C11_DriverOpen(r)
          /\ C11_Stage(reqs[r].pc) > C11_Stage("verify_connectivity")
          /\ reqs[r].runs = 0
    /\ C11_RunsQuery(r) =>
          /\ C11_SessionOpen(r) /\ C11_DriverOpen(r)
          /\ sessions'[reqs[r].session].state = "open"
          /\ reqs[r].runs = 0
    /\ C11_ReadsRows(r) =>
          /\ C11_SessionOpen(r) /\ C11_DriverOpen(r)
          /\ sessions'[reqs[r].session].state = "open"
          /\ reqs[r].runs = 1
          /\ C11_Stage(reqs'[r].pc) >= C11_Stage("session_close")
    /\ C11_ClosesSession(r) =>
          /\ C11_DriverOpen(r)
          /\ reqs[r].pc \notin { "run", "iterate" }
          /\ reqs'[r].pc \notin { "run", "iterate" }
    /\ C11_ClosesDriver(r) =>
          /\ reqs[r].session # 0
          /\ sessions[reqs[r].session].state = "closed"
    /\ (reqs[r].session # 0 /\ sessions[reqs[r].session].state = "closed") =>
          /\ ~ C11_RunsQuery(r)
          /\ ~ C11_ReadsRows(r)
          /\ sessions'[reqs[r].session].state = "closed"

\* C11: in every step of a request the events keep the order connect,
\* verify connectivity, open session, run query, read every row, close
\* session, close driver: the query is run and its rows are read while the
\* request's session and driver are open, the session is closed only once
\* the rows have been read (or the handler has raised), the driver after
\* the session, and with the session closed no query runs and no row is
\* read.
C11_QueryWhileSessionOpen == [][\A r \in Requests : C11_Step(r)]_vars

\* get_all_paragraphs has read the rows of its query, and the session and
\* then the driver have been closed after that.
C11_Witness ==
    \E r \in Requests :
        /\ Done(r)
        /\ reqs[r].handler = "get_all_paragraphs"
        /\ reqs[r].runs = 1
        /\ reqs[r].rows # << >>
        /\ reqs[r].resp.status = 200
        /\ reqs[r].session # 0
        /\ sessions[reqs[r].session].state = "closed"
        /\ drivers[reqs[r].driver].state = "closed"

====
